---- MODULE Spec2Model ----
(***************************************************************************)
(* AIS_Analysis/Section1_Yiannis_Modularized.py: the batch pipeline that   *)
(* cleans AIS position records, annotates each with its nearest port and   *)
(* the proximity flags, joins the records against the port polygons in     *)
(* chunks and writes vessels_with_parked_status.csv.                       *)
(*                                                                         *)
(* Representation.  A table is a sequence of rows, a row is a record whose *)
(* DOMAIN is the set of columns.  A nullable cell is <<>> (null / NaN) or  *)
(* <<v>>.  Coordinates are whole degrees.  A distance d >= 0 is held as    *)
(* its square d*d, which is exact on the integer grid where the square     *)
(* root is irrational; `d <= t` is then `d*d <= t*t`.                      *)
(***************************************************************************)
EXTENDS Integers, Sequences, FiniteSets, TLC

VARIABLES
    pc,             \* position of main()
    error,          \* the exception that ended the run, or "none"
    raw_file,       \* data/raw_data/raw_data.parquet: Cell(table), or Unreadable
    port_file,      \* what load_port_info() returns
    polygon_file,   \* what load_port_polygons() returns
    chunk_size,     \* parameter of process_with_polygons
    ais_raw_data,   \* main's working table
    port_info,      \* main's port reference table
    polygons,       \* main's polygon reference table
    i,              \* loop index of process_with_polygons (0-based offset)
    results,        \* list of chunk results
    final_results,  \* what process_with_polygons returned
    output_file,    \* vessels_with_parked_status.csv: Cell(table), or NoFile
    writes          \* number of times the output file was written

vars == <<pc, error, raw_file, port_file, polygon_file, chunk_size, ais_raw_data,
          port_info, polygons, i, results, final_results, output_file, writes>>

(***************************************************************************)
(* Bounds of the model.                                                    *)
(***************************************************************************)
MaxRecords == 2
MaxChunk == 2

(***************************************************************************)
(* Cells.                                                                  *)
(***************************************************************************)
NaN == <<>>
Cell(v) == <<v>>
Val(c) == c[1]
notnull(c) == c # NaN

\* A file that cannot be read, and a file that does not exist.
Unreadable == NaN
NoFile == NaN

(***************************************************************************)
(* Input fixtures.                                                         *)
(***************************************************************************)
RawRow(lat, lon, speed) == [latitude |-> lat, longitude |-> lon, speed |-> speed]

RawRows ==
    { RawRow(Cell(1), Cell(1), Cell(5)),
      RawRow(Cell(1), Cell(2), Cell(5)),
      RawRow(Cell(4), Cell(3), Cell(5)),
      RawRow(Cell(15), Cell(1), Cell(5)),
      RawRow(NaN, Cell(1), Cell(5)),
      RawRow(Cell(95), Cell(1), Cell(5)),
      RawRow(Cell(1), Cell(1), Cell(-1)) }

RECURSIVE SeqsUpTo(_, _)
SeqsUpTo(S, n) ==
    IF n = 0 THEN { <<>> }
    ELSE LET shorter == SeqsUpTo(S, n - 1)
         IN  shorter \cup { Append(s, x) : s \in { t \in shorter : Len(t) = n - 1 }, x \in S }

RawFiles == { Cell(t) : t \in SeqsUpTo(RawRows, MaxRecords) } \cup { Unreadable }

Port(name, lat, lon) == [Main_Port_Name |-> name, Latitude |-> lat, Longitude |-> lon]
Alpha == Port("Alpha", 1, 1)
Beta == Port("Beta", 1, 3)
Gamma == Port("Gamma", 4, 7)

PortFiles ==
    { <<>>, <<Alpha>>, <<Gamma>>, <<Alpha, Beta>>, <<Beta, Alpha, Beta>>,
      <<Gamma, Beta, Alpha>> }

\* A polygon is an axis-parallel rectangle [xmin, xmax] x [ymin, ymax],
\* x = longitude, y = latitude.
Rect(xmin, xmax, ymin, ymax) == [xmin |-> xmin, xmax |-> xmax, ymin |-> ymin, ymax |-> ymax]
PolygonRow(name, geom) == [port_name |-> name, polygon |-> geom]
PortA == PolygonRow("PortA", Rect(0, 2, 0, 3))
PortB == PolygonRow("PortB", Rect(2, 5, 0, 3))
PortC == PolygonRow("PortC", Rect(0, 4, 0, 6))

\* A polygon table: its coordinate reference system (NaN: none set), its
\* columns beside the geometry, and its rows.
PolygonTable(crs, columns, rows) == [crs |-> crs, columns |-> columns, rows |-> rows]
WGS84 == Cell("EPSG:4326")

PolygonFiles ==
    { PolygonTable(WGS84, {"port_name"}, <<>>),
      PolygonTable(WGS84, {"port_name"}, <<PortA>>),
      PolygonTable(WGS84, {"port_name"}, <<PortA, PortB, PortA>>),
      PolygonTable(WGS84, {"port_name"}, <<PortA, PortC>>),
      PolygonTable(WGS84, {"port_name"}, <<PortC, PortB>>),
      PolygonTable(NaN, {"port_name"}, <<PortA>>),
      PolygonTable(WGS84, {}, <<PortA>>) }

(***************************************************************************)
(* Sequence helpers.                                                       *)
(***************************************************************************)
RECURSIVE drop_duplicates(_)
drop_duplicates(table) ==
    IF table = <<>> THEN <<>>
    ELSE LET front == SubSeq(table, 1, Len(table) - 1)
             last == table[Len(table)]
         IN  IF \E k \in 1..Len(front) : front[k] = last
             THEN drop_duplicates(front)
             ELSE Append(drop_duplicates(front), last)

(***************************************************************************)
(* data_cleaning helpers (imported, not part of the source file).          *)
(***************************************************************************)
remove_NA(table) ==
    SelectSeq(table, LAMBDA r : \A c \in DOMAIN r : notnull(r[c]))

remove_invalid_lat_and_lon(table) ==
    SelectSeq(table, LAMBDA r : /\ Val(r.latitude) >= -90 /\ Val(r.latitude) <= 90
                                 /\ Val(r.longitude) >= -180 /\ Val(r.longitude) <= 180)

remove_invalid_speed(table) ==
    SelectSeq(table, LAMBDA r : Val(r.speed) >= 0)

load_and_clean_data(file) ==
    drop_duplicates(remove_invalid_speed(remove_invalid_lat_and_lon(remove_NA(file))))

(***************************************************************************)
(* Exceptions: an unhandled exception ends main() where it is raised.      *)
(***************************************************************************)
\* Variant: the exception is swallowed and main goes on to the write.
Raise_swallowed(e) ==
    /\ pc' = "save"
    /\ error' = e
    /\ UNCHANGED <<raw_file, port_file, polygon_file, chunk_size, ais_raw_data,
                   port_info, polygons, i, results, final_results, output_file, writes>>

Raise(e) ==
    /\ pc' = "aborted"
    /\ error' = e
    /\ UNCHANGED <<raw_file, port_file, polygon_file, chunk_size, ais_raw_data,
                   port_info, polygons, i, results, final_results, output_file, writes>>

Init ==
    /\ pc = "load"
    /\ error = "none"
    /\ raw_file \in RawFiles
    /\ port_file \in PortFiles
    /\ polygon_file \in PolygonFiles
    /\ chunk_size \in 1..MaxChunk
    /\ ais_raw_data = <<>>
    /\ port_info = <<>>
    /\ polygons = PolygonTable(NaN, {}, <<>>)
    /\ i = 0
    /\ results = <<>>
    /\ final_results = <<>>
    /\ output_file = NoFile
    /\ writes = 0

\* main, lines 99-100
LoadAndCleanData ==
    /\ pc = "load"
    /\ IF raw_file = Unreadable
       THEN Raise("IOError")
       ELSE /\ ais_raw_data' = load_and_clean_data(Val(raw_file))
            /\ pc' = "load_ports"
            /\ UNCHANGED <<error, raw_file, port_file, polygon_file, chunk_size, port_info,
                           polygons, i, results, final_results, output_file, writes>>

\* main, lines 103-104
LoadPortData ==
    /\ pc = "load_ports"
    /\ port_info' = drop_duplicates(port_file)
    /\ polygons' = [polygon_file EXCEPT !.rows = drop_duplicates(@)]
    /\ pc' = "investigate"
    /\ UNCHANGED <<error, raw_file, port_file, polygon_file, chunk_size, ais_raw_data,
                   i, results, final_results, output_file, writes>>

\* main, lines 107-108: investigate_data only prints
InvestigateData ==
    /\ pc = "investigate"
    /\ pc' = "proximity"
    /\ UNCHANGED <<error, raw_file, port_file, polygon_file, chunk_size, ais_raw_data,
                   port_info, polygons, i, results, final_results, output_file, writes>>

(***************************************************************************)
(* create_proximity_columns                                                *)
(***************************************************************************)
\* Squared planar distance between a record and a port, in degrees.
SqDist(row, port) ==
    (Val(row.latitude) - port.Latitude) * (Val(row.latitude) - port.Latitude)
    + (Val(row.longitude) - port.Longitude) * (Val(row.longitude) - port.Longitude)

\* Variant: the comparison of the scan is reversed.
RECURSIVE query_farthest(_, _, _)
query_farthest(ports, row, n) ==
    IF n = 1 THEN [distance |-> SqDist(row, ports[1]), index |-> 1]
    ELSE LET best == query_farthest(ports, row, n - 1)
             d == SqDist(row, ports[n])
         IN  IF d > best.distance THEN [distance |-> d, index |-> n] ELSE best

\* port_tree.query(point, k=1): the nearest of the ports seen so far, as
\* [distance, index]; the first nearest port wins a tie.
RECURSIVE query(_, _, _)
query(ports, row, n) ==
    IF n = 1 THEN [distance |-> SqDist(row, ports[1]), index |-> 1]
    ELSE LET best == query(ports, row, n - 1)
             d == SqDist(row, ports[n])
         IN  IF d < best.distance THEN [distance |-> d, index |-> n] ELSE best

thresholds == <<1, 3, 5, 10>>

\* Variant: the comparison is reversed.
LessThan_ge(distance, dist) == IF distance >= dist * dist THEN "Yes" ELSE "No"

\* np.where(distance <= dist, "Yes", "No") on the squared representation.
LessThan(distance, dist) == IF distance <= dist * dist THEN "Yes" ELSE "No"

\* lines 49-56: the proximity columns of one row
Annotate(row, ports) ==
    LET nearest == query(ports, row, Len(ports))
        distance == nearest.distance
    IN  row @@ [Distance_to_Nearest_Port |-> distance,
                Proximity_Port_Name |-> ports[nearest.index].Main_Port_Name,
                Port_Latitude |-> Cell(ports[nearest.index].Latitude),
                Port_Longitude |-> Cell(ports[nearest.index].Longitude),
                Less_than_1_km_from_port |-> LessThan(distance, thresholds[1]),
                Less_than_3_km_from_port |-> LessThan(distance, thresholds[2]),
                Less_than_5_km_from_port |-> LessThan(distance, thresholds[3]),
                Less_than_10_km_from_port |-> LessThan(distance, thresholds[4])]

\* Variant: only the name is overwritten.
Suppress_name_only(row) ==
    IF /\ row.Less_than_1_km_from_port = "No"
       /\ row.Less_than_3_km_from_port = "No"
       /\ row.Less_than_5_km_from_port = "No"
       /\ row.Less_than_10_km_from_port = "No"
    THEN [row EXCEPT !.Proximity_Port_Name = "No"]
    ELSE row

\* lines 59-65: remove port data for vessels not near any port
Suppress(row) ==
    IF /\ row.Less_than_1_km_from_port = "No"
       /\ row.Less_than_3_km_from_port = "No"
       /\ row.Less_than_5_km_from_port = "No"
       /\ row.Less_than_10_km_from_port = "No"
    THEN [row EXCEPT !.Proximity_Port_Name = "No",
                     !.Port_Latitude = NaN,
                     !.Port_Longitude = NaN]
    ELSE row

create_proximity_columns(table, ports) ==
    [k \in 1..Len(table) |-> Suppress(Annotate(table[k], ports))]

\* main, line 111.  With no port the query answers index 0 of an empty name
\* array for every record: IndexError on the first record.
CreateProximityColumns ==
    /\ pc = "proximity"
    /\ IF port_info = <<>> /\ ais_raw_data # <<>>
       THEN Raise("IndexError")
       ELSE /\ ais_raw_data' = create_proximity_columns(ais_raw_data, port_info)
            /\ pc' = "polygons"
            /\ UNCHANGED <<error, raw_file, port_file, polygon_file, chunk_size, port_info,
                           polygons, i, results, final_results, output_file, writes>>

(***************************************************************************)
(* process_with_polygons                                                   *)
(***************************************************************************)
\* line 73: to_crs needs a CRS on the table; a table already in EPSG:4326
\* keeps its coordinates.
to_crs(table) == [table EXCEPT !.crs = WGS84]

\* line 76: gpd.points_from_xy(chunk['longitude'], chunk['latitude'])
points_from_xy(row) == [x |-> Val(row.longitude), y |-> Val(row.latitude)]

\* Variant: a point on the boundary counts (predicate 'intersects').
within_touching(point, geom) ==
    /\ geom.xmin <= point.x /\ point.x <= geom.xmax
    /\ geom.ymin <= point.y /\ point.y <= geom.ymax

\* predicate='within': the point is in the interior of the polygon.
within(point, geom) ==
    /\ geom.xmin < point.x /\ point.x < geom.xmax
    /\ geom.ymin < point.y /\ point.y < geom.ymax

\* The right-hand rows of the left join for one record, as
\* [index_right, port_name]: one per polygon the point is within, or a
\* single all-null one.
RECURSIVE Matches(_, _, _)
Matches(point, rows, n) ==
    IF n = 0 THEN <<>>
    ELSE LET before == Matches(point, rows, n - 1)
         IN  IF within(point, rows[n].polygon)
             THEN Append(before, [index_right |-> Cell(n - 1),
                                  port_name |-> Cell(rows[n].port_name)])
             ELSE before

LeftJoin(row, rows) ==
    LET m == Matches(points_from_xy(row), rows, Len(rows))
    IN  IF m = <<>> THEN << [index_right |-> NaN, port_name |-> NaN] >> ELSE m

\* lines 81-83: the output row for one record and one joined right-hand row
JoinedRow(row, right) ==
    LET parked == notnull(right.index_right)
    IN  row @@ [port_name |-> right.port_name,
                Parked_in_Port |-> parked,
                Port_Name |-> IF parked THEN Val(right.port_name) ELSE "No"]

\* lines 75-83
RECURSIVE process_chunk(_, _)
process_chunk(chunk, rows) ==
    IF chunk = <<>> THEN <<>>
    ELSE LET right == LeftJoin(Head(chunk), rows)
         IN  [k \in 1..Len(right) |-> JoinedRow(Head(chunk), right[k])]
             \o process_chunk(Tail(chunk), rows)

\* Variant: the slice runs one row into the next chunk.
iloc_overlapping(table, start, stop) ==
    SubSeq(table, start + 1, IF stop + 1 < Len(table) THEN stop + 1 ELSE Len(table))

\* line 88: ais_raw_data.iloc[i:i + chunk_size]
iloc(table, start, stop) ==
    SubSeq(table, start + 1, IF stop < Len(table) THEN stop ELSE Len(table))

\* line 87: range(0, len(ais_raw_data), chunk_size) has an element at offset i
in_range(offset, stop) == offset < stop

\* Variant: an empty list concatenates to an empty table.
concat_raises_never(objs) == FALSE

\* line 92: pd.concat raises ValueError on an empty list
concat_raises(objs) == objs = <<>>

\* Variant: each chunk result is put in front of the ones before it.
RECURSIVE pd_concat_reversed(_)
pd_concat_reversed(objs) ==
    IF objs = <<>> THEN <<>> ELSE pd_concat_reversed(Tail(objs)) \o Head(objs)

\* line 92: pd.concat(results, ignore_index=True)
RECURSIVE pd_concat(_)
pd_concat(objs) ==
    IF objs = <<>> THEN <<>> ELSE Head(objs) \o pd_concat(Tail(objs))

\* line 73 and line 86
SetCrs ==
    /\ pc = "polygons"
    /\ IF polygons.crs = NaN
       THEN Raise("CRSError")
       ELSE /\ polygons' = to_crs(polygons)
            /\ results' = <<>>
            /\ i' = 0
            /\ pc' = "loop"
            /\ UNCHANGED <<error, raw_file, port_file, polygon_file, chunk_size,
                           ais_raw_data, port_info, final_results, output_file, writes>>

\* lines 87-89: one iteration of the chunk loop
ProcessChunk ==
    /\ pc = "loop"
    /\ in_range(i, Len(ais_raw_data))
    /\ IF "port_name" \notin polygons.columns
       THEN Raise("KeyError")
       ELSE /\ results' = Append(results,
                   process_chunk(iloc(ais_raw_data, i, i + chunk_size), polygons.rows))
            /\ i' = i + chunk_size
            /\ UNCHANGED <<pc, error, raw_file, port_file, polygon_file, chunk_size,
                           ais_raw_data, port_info, polygons, final_results, output_file,
                           writes>>

\* line 92 and main, line 114
Concat ==
    /\ pc = "loop"
    /\ ~in_range(i, Len(ais_raw_data))
    /\ IF concat_raises(results)
       THEN Raise("ValueError")
       ELSE /\ final_results' = pd_concat(results)
            /\ pc' = "save"
            /\ UNCHANGED <<error, raw_file, port_file, polygon_file, chunk_size,
                           ais_raw_data, port_info, polygons, i, results, output_file,
                           writes>>

\* main, lines 117-118
ToCsv ==
    /\ pc = "save"
    /\ output_file' = Cell(final_results)
    /\ writes' = writes + 1
    /\ pc' = "done"
    /\ UNCHANGED <<error, raw_file, port_file, polygon_file, chunk_size, ais_raw_data,
                   port_info, polygons, i, results, final_results>>

Next ==
    \/ LoadAndCleanData
    \/ LoadPortData
    \/ InvestigateData
    \/ CreateProximityColumns
    \/ SetCrs
    \/ ProcessChunk
    \/ Concat
    \/ ToCsv

Spec == Init /\ [][Next]_vars

(***************************************************************************)
(* Vocabulary of the properties.                                           *)
(***************************************************************************)
Rows(table) == { table[k] : k \in 1..Len(table) }

HasProximity(row) == "Distance_to_Nearest_Port" \in DOMAIN row

\* The rows create_proximity_columns has annotated: of the working table
\* and of everything derived from it.
AnnotatedRows ==
    { r \in Rows(ais_raw_data) : HasProximity(r) }
        \cup UNION { Rows(results[b]) : b \in 1..Len(results) }
        \cup Rows(final_results)

\* The rows process_chunk has produced.
JoinedRows == UNION { Rows(results[b]) : b \in 1..Len(results) } \cup Rows(final_results)

Returned == pc \in {"save", "done"}

Flag(row, t) ==
    CASE t = 1 -> row.Less_than_1_km_from_port
      [] t = 3 -> row.Less_than_3_km_from_port
      [] t = 5 -> row.Less_than_5_km_from_port
      [] t = 10 -> row.Less_than_10_km_from_port

AllFlagsNo(row) == \A t \in {1, 3, 5, 10} : Flag(row, t) = "No"

\* C1: after create_proximity_columns, for every record and thresholds
\* a < b in {1, 3, 5, 10}, "Less than a km" = Yes implies "Less than b km"
\* = Yes.
FlagsMonotone ==
    \A r \in AnnotatedRows : \A a, b \in {1, 3, 5, 10} :
        (a < b /\ Flag(r, a) = "Yes") => Flag(r, b) = "Yes"

FlagsMonotoneWitness ==
    /\ \E r \in AnnotatedRows : Flag(r, 1) = "Yes" /\ Flag(r, 10) = "Yes"
    /\ \E r \in AnnotatedRows : Flag(r, 3) = "No" /\ Flag(r, 5) = "Yes"

\* C2: a record whose four flags are all No has Proximity Port Name "No",
\* null Port Latitude and Port Longitude, and still the distance the
\* nearest-port query computed.
SentinelInvariant ==
    \A r \in AnnotatedRows :
        AllFlagsNo(r) =>
            /\ r.Proximity_Port_Name = "No"
            /\ r.Port_Latitude = NaN
            /\ r.Port_Longitude = NaN
            /\ r.Distance_to_Nearest_Port = query(port_info, r, Len(port_info)).distance
            /\ r.Distance_to_Nearest_Port > 10 * 10

SentinelWitness ==
    \E r \in AnnotatedRows : AllFlagsNo(r) /\ r.Proximity_Port_Name = "No"

\* C3: with a non-empty port table, Distance to Nearest Port is the minimum
\* over all ports of the planar distance between record and port.
NearestIsBruteForceMinimum ==
    \A r \in AnnotatedRows :
        /\ \A p \in 1..Len(port_info) :
               r.Distance_to_Nearest_Port
                   <= (Val(r.latitude) - port_info[p].Latitude) ^ 2
                      + (Val(r.longitude) - port_info[p].Longitude) ^ 2
        /\ \E p \in 1..Len(port_info) :
               r.Distance_to_Nearest_Port
                   = (Val(r.latitude) - port_info[p].Latitude) ^ 2
                     + (Val(r.longitude) - port_info[p].Longitude) ^ 2

NearestWitness ==
    /\ Len(port_info) >= 3
    /\ \E r \in AnnotatedRows :
           /\ r.Distance_to_Nearest_Port < SqDist(r, port_info[1])
           /\ r.Distance_to_Nearest_Port < SqDist(r, port_info[Len(port_info)])

\* The interior of a rectangle on the grid: the points whose four grid
\* neighbours all lie in the closed rectangle.
InClosed(x, y, geom) ==
    /\ geom.xmin <= x /\ x <= geom.xmax
    /\ geom.ymin <= y /\ y <= geom.ymax

StrictlyInside(x, y, geom) ==
    /\ InClosed(x - 1, y, geom) /\ InClosed(x + 1, y, geom)
    /\ InClosed(x, y - 1, geom) /\ InClosed(x, y + 1, geom)

Max(a, b) == IF a > b THEN a ELSE b
Min(a, b) == IF a < b THEN a ELSE b

\* Two rectangles overlap when their interiors meet.
Overlap(g, h) ==
    /\ Max(g.xmin, h.xmin) < Min(g.xmax, h.xmax)
    /\ Max(g.ymin, h.ymin) < Min(g.ymax, h.ymax)

NonOverlapping(rows) ==
    \A j, k \in 1..Len(rows) : j # k => ~Overlap(rows[j].polygon, rows[k].polygon)

Containing(r) ==
    { k \in 1..Len(polygons.rows) :
        StrictlyInside(Val(r.longitude), Val(r.latitude), polygons.rows[k].polygon) }

\* The columns of a joined row that the record had before the join.
Record(r) == [c \in DOMAIN r \ {"port_name", "Parked_in_Port", "Port_Name"} |-> r[c]]

\* C4: with pairwise non-overlapping polygons, Parked in Port is true iff
\* the (longitude, latitude) point lies strictly within exactly one polygon,
\* Port Name is then that polygon's port_name, and otherwise Parked in Port
\* is false and Port Name is "No"; every record has such a row.
ContainmentExclusive ==
    NonOverlapping(polygons.rows) =>
        /\ \A r \in JoinedRows :
               /\ r.Parked_in_Port <=> Cardinality(Containing(r)) = 1
               /\ r.Parked_in_Port =>
                      \A k \in Containing(r) : r.Port_Name = polygons.rows[k].port_name
               /\ ~r.Parked_in_Port => r.Port_Name = "No"
        /\ Returned => \A a \in Rows(ais_raw_data) : \E r \in Rows(final_results) : Record(r) = a

ContainmentWitness ==
    /\ pc = "done"
    /\ Len(polygons.rows) >= 2
    /\ NonOverlapping(polygons.rows)
    /\ \E r \in Rows(final_results) : r.Parked_in_Port /\ r.Port_Name = "PortA"
    /\ \E r \in Rows(final_results) :
           /\ ~r.Parked_in_Port
           /\ \E k \in 1..Len(polygons.rows) :
                  InClosed(Val(r.longitude), Val(r.latitude), polygons.rows[k].polygon)

\* C5: whatever the chunk size, process_with_polygons returns the table
\* that a single chunk holding every record gives (chunk_size = number of
\* records); the runs with chunk_size = 1 are among those compared.
BatchSizeInvariance ==
    Returned => final_results = process_chunk(ais_raw_data, polygons.rows)

BatchSizeWitness ==
    /\ pc = "done"
    /\ chunk_size = 1
    /\ Len(results) >= 2
    /\ \E r \in Rows(final_results) : r.Parked_in_Port
    /\ \E r \in Rows(final_results) : ~r.Parked_in_Port

\* C6: the written output holds exactly one row per cleaned record, for
\* every polygon table, overlapping polygons included.
OneRowPerRecord ==
    pc = "done" =>
        /\ Len(Val(output_file)) = Len(ais_raw_data)
        /\ \A k \in 1..Len(ais_raw_data) : Record(Val(output_file)[k]) = ais_raw_data[k]

\* The position of a joined row's record in the cleaned table.
Position(r) == CHOOSE k \in 1..Len(ais_raw_data) : ais_raw_data[k] = Record(r)

\* C7: output rows keep the relative order of their records; chunk b holds
\* rows of the records at offsets (b-1)*chunk_size .. b*chunk_size - 1 only,
\* and the chunks are concatenated in the order they were taken.
OrderPreserved ==
    /\ \A b \in 1..Len(results) : \A r \in Rows(results[b]) :
           /\ (b - 1) * chunk_size < Position(r)
           /\ Position(r) <= b * chunk_size
    /\ \A b \in 1..Len(results) : \A j, k \in 1..Len(results[b]) :
           j < k => Position(results[b][j]) <= Position(results[b][k])
    /\ Returned =>
           \A j, k \in 1..Len(final_results) :
               j < k => Position(final_results[j]) <= Position(final_results[k])

OrderWitness ==
    /\ pc = "done"
    /\ Len(results) >= 2
    /\ Len(final_results) >= 2
    /\ Position(final_results[1]) < Position(final_results[Len(final_results)])

\* The columns of a row that the raw file had.
RawColumns(r) == [c \in {"latitude", "longitude", "speed"} |-> r[c]]

\* C8: the output file is written at most once, only after cleaning,
\* annotation and every chunk have completed, and a run that raised has
\* written nothing.
NoPartialOutput ==
    /\ writes <= 1
    /\ (writes = 0) <=> (output_file = NoFile)
    /\ (pc = "aborted") <=> (error # "none")
    /\ pc = "aborted" => output_file = NoFile
    /\ output_file # NoFile =>
           /\ pc = "done"
           /\ raw_file # Unreadable
           /\ [k \in 1..Len(ais_raw_data) |-> RawColumns(ais_raw_data[k])]
                  = load_and_clean_data(Val(raw_file))
           /\ \A a \in Rows(ais_raw_data) : HasProximity(a)
           /\ i >= Len(ais_raw_data)
           /\ Len(results) * chunk_size >= Len(ais_raw_data)
           /\ \A a \in Rows(ais_raw_data) : \E r \in Rows(Val(output_file)) : Record(r) = a
           /\ Val(output_file) = final_results

NoPartialOutputWitness ==
    /\ pc = "aborted"
    /\ error = "KeyError"
    /\ ais_raw_data # <<>>
    /\ \A a \in Rows(ais_raw_data) : HasProximity(a)
    /\ output_file = NoFile

\* Kilometres per degree of latitude: 0.001 degree is about 0.11 km.
KmPerDegree == 110

\* Squared distance in kilometres between a record and a port.  The
\* fixtures lie within 15 degrees of the equator, where a degree of
\* longitude is within 4% of a degree of latitude.
KmSq(row, port) == KmPerDegree * KmPerDegree * SqDist(row, port)

FartherThan10Km(row) == \A p \in 1..Len(port_info) : KmSq(row, port_info[p]) > 10 * 10

\* C9: a record farther than 10 km from every port has Proximity Port Name
\* "No", null port coordinates and all four flags No, and with no
\* containing polygon Parked in Port false and Port Name "No": the
\* thresholds are kilometre cutoffs.
KilometreCutoffs ==
    /\ \A r \in AnnotatedRows :
           FartherThan10Km(r) =>
               /\ AllFlagsNo(r)
               /\ r.Proximity_Port_Name = "No"
               /\ r.Port_Latitude = NaN
               /\ r.Port_Longitude = NaN
    /\ \A r \in JoinedRows :
           (FartherThan10Km(r) /\ Containing(r) = {}) =>
               ~r.Parked_in_Port /\ r.Port_Name = "No"

\* C10: with an empty cleaned table the chunk loop runs zero times, the
\* result list stays empty, pd.concat raises and main aborts before the
\* write; pd.concat raises in no other case.
EmptyInputAborts ==
    /\ (pc # "load" /\ ais_raw_data = <<>>) =>
           /\ results = <<>>
           /\ i = 0
           /\ ~Returned
           /\ output_file = NoFile
    /\ (pc = "loop" /\ ais_raw_data = <<>>) => ENABLED Concat /\ ~ENABLED ProcessChunk
    /\ error = "ValueError" => pc = "aborted" /\ ais_raw_data = <<>>

EmptyInputWitness ==
    /\ pc = "aborted"
    /\ error = "ValueError"
    /\ ais_raw_data = <<>>
    /\ raw_file # Unreadable
    /\ Val(raw_file) # <<>>
    /\ port_info # <<>>
    /\ results = <<>>
    /\ output_file = NoFile
====
